---- MODULE Spec2Model ----
(***************************************************************************)
(* Blog CMS: the post store (models/BlogPost + controllers/postController) *)
(* and the comment store (models/Comment + controllers/commentController). *)
(*                                                                         *)
(* Every request handler is cut at its database round trips (its awaits):  *)
(* one action per round trip, so that two requests in flight interleave    *)
(* exactly where the Node event loop lets them.  A request slot of `procs` *)
(* holds the handler's position and its in-memory document.                *)
(*                                                                         *)
(* Document.save() of a loaded document sends only the modified paths:     *)
(* array.push becomes $push (+ $inc __v), assigning a whole array becomes  *)
(* $set guarded by the loaded __v (+ $inc __v), a number becomes $set.     *)
(* Model.findByIdAndUpdate / findByIdAndDelete / deleteMany run no 'save'  *)
(* middleware.                                                             *)
(***************************************************************************)
EXTENDS Integers, Sequences, FiniteSets, TLC

VARIABLES
  posts,        \* BlogPost collection: post id -> document
  comments,     \* Comment collection: comment id -> document
  procs,        \* request slot -> position and locals of the request in flight
  now,          \* logical clock read by new Date()
  nextPost,     \* next fresh BlogPost _id
  nextComment,  \* next fresh Comment _id
  out,          \* the last response sent: [op, code, msg], with the list a
                \* listing returns (posts, comments) and the caller it went to
  tg,           \* history: the run of back-to-back like toggles in progress
  blogPage      \* the post page open in a browser: its user, the post data its
                \* query holds, its liked flag and its requests in flight

vars == <<posts, comments, procs, now, nextPost, nextComment, out, tg, blogPage>>

----------------------------------------------------------------------------
(* Bounds *)

MaxPosts == 2      \* post ids 1..MaxPosts
MaxComments == 3   \* comment ids 1..MaxComments
MaxViews == 1      \* a view is counted only while views < MaxViews
MaxVersion == 4    \* a like is toggled only while the document's __v < MaxVersion

Procs == {"r1", "r2"}
Users == {"u1", "u2", "adm"}
Anon == "anon"

Role(u) == IF u = "adm" THEN "admin" ELSE "user"

Statuses == {"draft", "published", "archived"}
CommentStatuses == {"pending", "approved", "rejected", "spam"}
Undefined == "undefined"
NoTitle == <<>>

PostIds == 1..MaxPosts
CommentIds == 1..MaxComments

----------------------------------------------------------------------------
(* slugify(title, {lower: true, strict: true, remove: /[*+~.()'"!:@]/g})   *)
(* Titles and slugs are sequences of one-character strings.                *)

UpperChars == {"H", "I"}
AlnumChars == {"H", "I", "h", "i", "0", "1", "2", "3", "4", "5", "6", "7", "8", "9"}
DigitChars == <<"0", "1", "2", "3", "4", "5", "6", "7", "8", "9">>

LowerChar(c) == CASE c = "H" -> "h" [] c = "I" -> "i" [] OTHER -> c

ToLower(s) == [i \in 1..Len(s) |-> LowerChar(s[i])]

IsLower(s) == \A i \in 1..Len(s) : s[i] \notin UpperChars

\* the replacement character is read as a space; the remove set and strict mode
\* leave letters, digits and white space
KeepChar(c) == c \in AlnumChars \/ c = " "

StripChars(s) == SelectSeq([i \in 1..Len(s) |-> IF s[i] = "-" THEN " " ELSE s[i]], KeepChar)

RECURSIVE TrimLeft(_)
TrimLeft(s) == IF s # <<>> /\ Head(s) = " " THEN TrimLeft(Tail(s)) ELSE s

RECURSIVE TrimRight(_)
TrimRight(s) ==
  IF s # <<>> /\ s[Len(s)] = " " THEN TrimRight(SubSeq(s, 1, Len(s) - 1)) ELSE s

\* slug.replace(/\s+/g, '-')
RECURSIVE Dashes(_)
Dashes(s) ==
  IF s = <<>> THEN <<>>
  ELSE IF Head(s) = " " THEN <<"-">> \o Dashes(TrimLeft(s))
  ELSE <<Head(s)>> \o Dashes(Tail(s))

Slugify(title) == ToLower(Dashes(TrimRight(TrimLeft(StripChars(title)))))

\* the decimal digits of n, as `${counter}` prints them
RECURSIVE Digits(_)
Digits(n) ==
  IF n < 10 THEN <<DigitChars[n + 1]>> ELSE Digits(n \div 10) \o <<DigitChars[(n % 10) + 1]>>

\* `${baseSlug}-${counter}`
SuffixedAfterIncrement(base, counter) == base \o <<"-">> \o Digits(counter + 1)

Suffixed(base, counter) == base \o <<"-">> \o Digits(counter)

----------------------------------------------------------------------------
(* Documents *)

Idle == [pc |-> "idle"]

\* res.status(code).json({ message, success }): msg tells apart the rejections
\* of one handler that share a status code
RespMsg(op, code, msg) == [op |-> op, code |-> code, msg |-> msg]

Resp(op, code) == RespMsg(op, code, "")

TgNone == [n |-> 0]

HasUser(likes, u) == \E i \in 1..Len(likes) : likes[i] = u

NotUser(u) == [x \in Users |-> x # u]

\* likes.filter(like => like.user !== userId)
WithoutUser(likes, u) == LET keep == NotUser(u) IN SelectSeq(likes, LAMBDA x : keep[x])

NoDuplicates(likes) == \A i, j \in 1..Len(likes) : likes[i] = likes[j] => i = j

Members(likes) == {likes[i] : i \in 1..Len(likes)}

\* the ownership test of updatePost, deletePost, updateComment, deleteComment
AlwaysMayModify(u, author) == TRUE

MayModify(u, author) == author = u \/ Role(u) = "admin"

Remove(store, ids) == [x \in (DOMAIN store) \ ids |-> store[x]]

Insert(store, id, doc) == [x \in (DOMAIN store) \cup {id} |-> IF x = id THEN doc ELSE store[x]]

----------------------------------------------------------------------------
(* BlogPost schema and its pre('save') hook *)

\* slug: { unique: true }: the index refuses a second document with this slug
NoUniqueIndex(slug, id) == TRUE

UniqueIndexAdmits(slug, id) == \A q \in DOMAIN posts : q = id \/ posts[q].slug # slug

\* findOne({ slug, _id: { $ne: this._id } })
NoSlugCheck(slug, id) == FALSE

SlugTaken(slug, id) == \E q \in DOMAIN posts : q # id /\ posts[q].slug = slug

\* publishedAt after the hook, given the modified paths and the time
StampWhenPublished(status, publishedAt, modified, t) ==
  IF status = "published" THEN t ELSE publishedAt

StampPublishedAt(status, publishedAt, modified, t) ==
  IF "status" \in modified /\ status = "published" /\ publishedAt = 0
  THEN t ELSE publishedAt

\* one turn of the hook's while loop on the new document d; when the slug is
\* free the rest of the hook runs and the insert is sent
SlugProbe(d) ==
  IF SlugTaken(d.slug, d.id)
  THEN [d EXCEPT !.slug = Suffixed(d.base, d.counter), !.counter = @ + 1]
  ELSE [d EXCEPT !.pc = "cp_insert",
                 !.slug = ToLower(d.slug),
                 !.publishedAt = StampPublishedAt(d.status, 0, {"title", "status"}, now)]

Tick(before, after) == IF after # before THEN now + 1 ELSE now

----------------------------------------------------------------------------
(* postController.createPost *)

\* status: status || 'draft'
StatusAsSent(status) == status

StatusOrDraft(status) == IF status = Undefined THEN "draft" ELSE status

\* `saves` is history: the calls of blogPost.save() the request has made, the
\* one under way included (createPost makes one and answers 500 when it throws);
\* `asked` is history too: the status of the request's body
CreatePostBegin(p, u, title, status) ==
  /\ procs[p].pc = "idle"
  /\ nextPost <= MaxPosts
  /\ LET d == SlugProbe([pc |-> "cp_slug", id |-> nextPost, u |-> u, title |-> title,
                         status |-> StatusOrDraft(status), base |-> Slugify(title),
                         slug |-> Slugify(title), counter |-> 1, publishedAt |-> 0,
                         saves |-> 1, asked |-> status])
     IN /\ procs' = [procs EXCEPT ![p] = d]
        /\ now' = Tick(0, d.publishedAt)
  /\ nextPost' = nextPost + 1
  /\ tg' = TgNone
  /\ UNCHANGED <<posts, comments, nextComment, out>>

CreatePostSlugCheck(p) ==
  /\ procs[p].pc = "cp_slug"
  /\ LET d == SlugProbe(procs[p])
     IN /\ procs' = [procs EXCEPT ![p] = d]
        /\ now' = Tick(0, d.publishedAt)
  /\ tg' = TgNone
  /\ UNCHANGED <<posts, comments, nextPost, nextComment, out>>

CreatePostInsert(p) ==
  /\ procs[p].pc = "cp_insert"
  /\ LET d == procs[p]
     IN IF UniqueIndexAdmits(d.slug, d.id)
        THEN /\ posts' = Insert(posts, d.id,
                          [title |-> d.title, slug |-> d.slug, author |-> d.u,
                           status |-> d.status, publishedAt |-> d.publishedAt,
                           likes |-> <<>>, views |-> 0, v |-> 0,
                           featuredImage |-> "", images |-> <<>>])
             /\ out' = Resp("createPost", 201)
        ELSE /\ posts' = posts
             /\ out' = Resp("createPost", 500)
  /\ procs' = [procs EXCEPT ![p] = Idle]
  /\ tg' = TgNone
  /\ UNCHANGED <<comments, now, nextPost, nextComment>>

----------------------------------------------------------------------------
(* postController.updatePost *)

\* findByIdAndUpdate(id, updateData): $set of the fields the body defines
ApplyUpdate(doc, title, status) ==
  [doc EXCEPT !.title = IF title = NoTitle THEN @ ELSE title,
              !.status = IF status = Undefined THEN @ ELSE status]

UpdatePostBegin(p, u, id, title, status) ==
  /\ procs[p].pc = "idle"
  /\ IF id \notin DOMAIN posts
     THEN /\ out' = Resp("updatePost", 404)
          /\ procs' = procs
     ELSE IF ~MayModify(u, posts[id].author)
     THEN /\ out' = Resp("updatePost", 403)
          /\ procs' = procs
     ELSE /\ out' = out
          /\ procs' = [procs EXCEPT ![p] =
                         [pc |-> "up_write", id |-> id, title |-> title, status |-> status]]
  /\ tg' = TgNone
  /\ UNCHANGED <<posts, comments, now, nextPost, nextComment>>

UpdatePostWrite(p) ==
  /\ procs[p].pc = "up_write"
  /\ LET d == procs[p]
     IN IF d.id \in DOMAIN posts
        THEN /\ posts' = [posts EXCEPT ![d.id] = ApplyUpdate(@, d.title, d.status)]
             /\ out' = Resp("updatePost", 200)
        ELSE \* updatedPost is null: updatedPost.getPublicData() throws
             /\ posts' = posts
             /\ out' = Resp("updatePost", 500)
  /\ procs' = [procs EXCEPT ![p] = Idle]
  /\ tg' = TgNone
  /\ UNCHANGED <<comments, now, nextPost, nextComment>>

----------------------------------------------------------------------------
(* postController.deletePost *)

\* imagesToDelete: the publicId of the featured image, if it has one, then
\* those of post.images
ImagesToDelete(doc) ==
  (IF doc.featuredImage # "" THEN <<doc.featuredImage>> ELSE <<>>) \o doc.images

\* the request at its loop over imagesToDelete, or past it when the list is
\* empty.  History: `all` is the list as collected, `attempted` the images
\* deleteFromCloudinary was called for, `logged` those whose call threw.
DeleteImages(id, images) ==
  [pc |-> IF images = <<>> THEN "dp_delete" ELSE "dp_images", id |-> id,
   todo |-> images, all |-> images, attempted |-> <<>>, logged |-> <<>>]

\* one turn of the loop: try { await deleteFromCloudinary(publicId) } catch
\* { console.error(...) }; ok tells whether the call returned
AbortOnFailure(d, ok) ==
  IF ok
  THEN [d EXCEPT !.pc = IF Len(d.todo) = 1 THEN "dp_delete" ELSE "dp_images",
                 !.todo = Tail(@), !.attempted = Append(@, Head(d.todo))]
  ELSE Idle

AfterImage(d, ok) ==
  [d EXCEPT !.pc = IF Len(d.todo) = 1 THEN "dp_delete" ELSE "dp_images",
            !.todo = Tail(@),
            !.attempted = Append(@, Head(d.todo)),
            !.logged = IF ok THEN @ ELSE Append(@, Head(d.todo))]

DeletePostBegin(p, u, id) ==
  /\ procs[p].pc = "idle"
  /\ IF id \notin DOMAIN posts
     THEN /\ out' = Resp("deletePost", 404)
          /\ procs' = procs
     ELSE IF ~MayModify(u, posts[id].author)
     THEN /\ out' = Resp("deletePost", 403)
          /\ procs' = procs
     ELSE /\ out' = out
          /\ procs' = [procs EXCEPT ![p] = DeleteImages(id, ImagesToDelete(posts[id]))]
  /\ tg' = TgNone
  /\ UNCHANGED <<posts, comments, now, nextPost, nextComment>>

\* cloudinary.uploader.destroy returns or throws: the media service decides
DeletePostImage(p, ok) ==
  /\ procs[p].pc = "dp_images"
  /\ procs' = [procs EXCEPT ![p] = AfterImage(@, ok)]
  /\ tg' = TgNone
  /\ UNCHANGED <<posts, comments, now, nextPost, nextComment, out>>

\* the response of deletePost; `logged` is history, the images whose deletion
\* was logged as failed while the request was served
Deleted(logged) ==
  IF logged = <<>> THEN Resp("deletePost", 200)
  ELSE [op |-> "deletePost", code |-> 200, msg |-> "", logged |-> logged]

\* BlogPost.findByIdAndDelete(id): the post document, and nothing else
DeletePostRemove(p) ==
  /\ procs[p].pc = "dp_delete"
  /\ posts' = Remove(posts, {procs[p].id})
  /\ out' = Deleted(procs[p].logged)
  /\ procs' = [procs EXCEPT ![p] = Idle]
  /\ tg' = TgNone
  /\ UNCHANGED <<comments, now, nextPost, nextComment>>

----------------------------------------------------------------------------
(* BlogPost.methods.toggleLike / Comment.methods.toggleLike, and the save() *)
(* that ends them.  The in-memory change decides the update that is sent:   *)
(* "push" for likes.push(...), "set" for likes = likes.filter(...).         *)

ToggleLikeDoc(likes, u) ==
  IF HasUser(likes, u)
  THEN [kind |-> "set", likes |-> WithoutUser(likes, u)]
  ELSE [kind |-> "push", likes |-> Append(likes, u)]

\* does the update d of save() match the stored document?  A $set of the
\* whole array carries the loaded __v in its filter (else: VersionError)
SaveMatches(doc, d) == d.kind = "push" \/ doc.v = d.v

\* the stored document after save() applies the update d to it
SaveLikes(doc, d) ==
  IF d.kind = "push"
  THEN [doc EXCEPT !.likes = Append(@, d.u), !.v = @ + 1]
  ELSE [doc EXCEPT !.likes = d.likes, !.v = @ + 1]

\* history of back-to-back toggles: n counts the steps (begin, save, begin,
\* save) of two consecutive successful toggle requests by one user on one
\* document with no step of any other request in between; p is the slot of
\* the request under way, `before` the stored like list when the first began
TgBegin(p, kind, id, u, likes) ==
  IF tg.n = 2 /\ tg.kind = kind /\ tg.id = id /\ tg.u = u
  THEN [tg EXCEPT !.n = 3, !.p = p]
  ELSE [n |-> 1, p |-> p, kind |-> kind, id |-> id, u |-> u, before |-> likes]

TgSave(p, kind, id) ==
  IF tg.n \in {1, 3} /\ tg.p = p /\ tg.kind = kind /\ tg.id = id
  THEN [tg EXCEPT !.n = @ + 1]
  ELSE TgNone

----------------------------------------------------------------------------
(* postController.toggleLike *)

\* post.status !== 'published'
NotDraft(status) == status # "draft"

PostLikeable(status) == status = "published"

ToggleLikeBegin(p, u, id) ==
  /\ procs[p].pc = "idle"
  /\ IF id \notin DOMAIN posts
     THEN /\ out' = Resp("toggleLike", 404)
          /\ procs' = procs
          /\ now' = now
          /\ tg' = TgNone
     ELSE IF ~PostLikeable(posts[id].status)
     THEN /\ out' = Resp("toggleLike", 400)
          /\ procs' = procs
          /\ now' = now
          /\ tg' = TgNone
     ELSE /\ posts[id].v < MaxVersion
          /\ out' = out
          /\ LET doc == posts[id]
                 t == ToggleLikeDoc(doc.likes, u)
                 pub == StampPublishedAt(doc.status, doc.publishedAt, {"likes"}, now)
             IN /\ procs' = [procs EXCEPT ![p] =
                               [pc |-> "tl_save", id |-> id, u |-> u, kind |-> t.kind,
                                likes |-> t.likes, v |-> doc.v,
                                publishedAt |-> pub, stamped |-> pub # doc.publishedAt]]
                /\ now' = Tick(doc.publishedAt, pub)
          /\ tg' = TgBegin(p, "post", id, u, posts[id].likes)
  /\ UNCHANGED <<posts, comments, nextPost, nextComment>>

ToggleLikeSave(p) ==
  /\ procs[p].pc = "tl_save"
  /\ LET d == procs[p]
     IN IF d.id \in DOMAIN posts /\ SaveMatches(posts[d.id], d)
        THEN /\ posts' = [posts EXCEPT ![d.id] =
                            [SaveLikes(@, d) EXCEPT
                               !.publishedAt = IF d.stamped THEN d.publishedAt ELSE @]]
             /\ out' = Resp("toggleLike", 200)
             /\ tg' = TgSave(p, "post", d.id)
        ELSE /\ posts' = posts
             /\ out' = Resp("toggleLike", 500)
             /\ tg' = TgNone
  /\ procs' = [procs EXCEPT ![p] = Idle]
  /\ UNCHANGED <<comments, now, nextPost, nextComment>>

----------------------------------------------------------------------------
(* postController.getPostBySlug and BlogPost.methods.incrementViews *)

\* BlogPost.findOne({ slug })
FindBySlug(slug) ==
  LET hits == {q \in DOMAIN posts : posts[q].slug = slug}
  IN IF hits = {} THEN 0 ELSE CHOOSE q \in hits : \A r \in hits : q <= r

\* post.getPublicData() of the document the handler holds, with isLiked set
\* when the request has a user: likes are the stored entries { user,
\* createdAt }, views the document's counter
PostData(id, likes, views, viewer) ==
  [id |-> id, likes |-> [i \in 1..Len(likes) |-> [user |-> likes[i]]], views |-> views,
   isLiked |-> viewer # Anon /\ HasUser(likes, viewer)]

\* res.json({ ..., data: { post: postData } }), sent to the caller
Retrieved(viewer, data) ==
  [op |-> "getPostBySlug", code |-> 200, msg |-> "", to |-> viewer, post |-> data]

\* post.status !== 'published' && (!req.user || (req.user is neither the
\* author nor an administrator))
DeniedToUsersOnly(viewer, doc) ==
  /\ doc.status # "published"
  /\ viewer # Anon /\ viewer # doc.author /\ Role(viewer) # "admin"

Denied(viewer, doc) ==
  /\ doc.status # "published"
  /\ (viewer = Anon \/ (viewer # doc.author /\ Role(viewer) # "admin"))

GetPostBySlugBegin(p, viewer, slug) ==
  /\ procs[p].pc = "idle"
  /\ LET id == FindBySlug(slug)
     IN IF id = 0
        THEN /\ out' = Resp("getPostBySlug", 404)
             /\ procs' = procs
             /\ now' = now
        ELSE IF Denied(viewer, posts[id])
        THEN /\ out' = Resp("getPostBySlug", 403)
             /\ procs' = procs
             /\ now' = now
        ELSE IF posts[id].status = "published" /\ viewer # posts[id].author
        THEN /\ posts[id].views < MaxViews
             /\ out' = out
             /\ LET doc == posts[id]
                    pub == StampPublishedAt(doc.status, doc.publishedAt, {"views"}, now)
                IN /\ procs' = [procs EXCEPT ![p] =
                                  [pc |-> "gp_save", id |-> id, views |-> doc.views + 1,
                                   publishedAt |-> pub, stamped |-> pub # doc.publishedAt,
                                   viewer |-> viewer, likes |-> doc.likes]]
                   /\ now' = Tick(doc.publishedAt, pub)
        ELSE /\ out' = Retrieved(viewer, PostData(id, posts[id].likes, posts[id].views, viewer))
             /\ procs' = procs
             /\ now' = now
  /\ tg' = TgNone
  /\ UNCHANGED <<posts, comments, nextPost, nextComment>>

\* save() of incrementViews: $set views
GetPostBySlugSave(p) ==
  /\ procs[p].pc = "gp_save"
  /\ LET d == procs[p]
     IN IF d.id \in DOMAIN posts
        THEN /\ posts' = [posts EXCEPT ![d.id] =
                            [@ EXCEPT !.views = d.views,
                                      !.publishedAt = IF d.stamped THEN d.publishedAt ELSE @]]
             /\ out' = Retrieved(d.viewer, PostData(d.id, d.likes, d.views, d.viewer))
        ELSE /\ posts' = posts
             /\ out' = Resp("getPostBySlug", 500)
  /\ procs' = [procs EXCEPT ![p] = Idle]
  /\ tg' = TgNone
  /\ UNCHANGED <<comments, now, nextPost, nextComment>>

----------------------------------------------------------------------------
(* postController.getPosts *)

DefaultLimit == 10

\* the query: status and publishedAt are fixed for callers who are not
\* administrators, an administrator's status filter is optional; the author
\* filter is for everyone.  { $lte: new Date() } matches no null publishedAt.
ListedAsAsked(doc, u, status, author, t) ==
  /\ IF status # Undefined
     THEN doc.status = status
     ELSE doc.status = "published" /\ doc.publishedAt # 0 /\ doc.publishedAt <= t
  /\ author = Undefined \/ doc.author = author

Listed(doc, u, status, author, t) ==
  /\ IF u # Anon /\ Role(u) = "admin"
     THEN status = Undefined \/ doc.status = status
     ELSE doc.status = "published" /\ doc.publishedAt # 0 /\ doc.publishedAt <= t
  /\ author = Undefined \/ doc.author = author

\* .sort({ publishedAt: -1 }): the orders of `ids` the store may return (posts
\* with equal keys come in any order)
SortedByPublishedAt(ids) ==
  {s \in [1..Cardinality(ids) -> ids] :
     /\ \A i, j \in 1..Cardinality(ids) : s[i] = s[j] => i = j
     /\ \A i, j \in 1..Cardinality(ids) :
          i < j => posts[s[i]].publishedAt >= posts[s[j]].publishedAt}

\* .skip((page - 1) * limit).limit(limit)
Page(s, page, limit) ==
  LET first == (page - 1) * limit + 1
      last == IF page * limit < Len(s) THEN page * limit ELSE Len(s)
  IN IF first > last THEN <<>> ELSE SubSeq(s, first, last)

\* `match` stands for the tags, categories and text filters: the posts they
\* select.  The response lists the ids of the posts of the page, and `to` is
\* the caller it is sent to.
GetPosts(p, u, status, author, match, page, limit) ==
  /\ procs[p].pc = "idle"
  /\ \E s \in SortedByPublishedAt({id \in DOMAIN posts \cap match :
                                      Listed(posts[id], u, status, author, now)}) :
       out' = [op |-> "getPosts", code |-> 200, msg |-> "", to |-> u,
               posts |-> Page(s, page, limit)]
  /\ tg' = TgNone
  /\ UNCHANGED <<posts, comments, procs, now, nextPost, nextComment>>

----------------------------------------------------------------------------
(* commentController.createComment and the isNew branch of Comment's        *)
(* pre('save') hook                                                         *)

\* create requests that passed the post check and have taken no _id yet
Waiting == Cardinality({q \in Procs : procs[q].pc = "cc_parent"})

\* post.status !== 'published'
CommentableAlways(status) == TRUE

Commentable(status) == status = "published"

\* parentComment.post.toString() !== postId
AnyPost(parentPost, postId) == TRUE

SamePost(parentPost, postId) == parentPost = postId

\* new Comment({...}) followed by save(): the hook's findByIdAndUpdate on the
\* parent is sent first when the comment is a reply
NewComment(u, postId, parent, content) ==
  [pc |-> IF parent # 0 THEN "cc_link" ELSE "cc_insert", id |-> nextComment, u |-> u,
   post |-> postId, parent |-> parent, content |-> content]

CreateCommentBegin(p, u, postId, parent, content) ==
  /\ procs[p].pc = "idle"
  /\ nextComment + Waiting <= MaxComments
  /\ IF postId \notin DOMAIN posts
     THEN /\ out' = RespMsg("createComment", 404, "Post not found")
          /\ UNCHANGED <<procs, nextComment>>
     ELSE IF ~Commentable(posts[postId].status)
     THEN /\ out' = RespMsg("createComment", 400, "Cannot comment on unpublished posts")
          /\ UNCHANGED <<procs, nextComment>>
     ELSE IF parent # 0
     THEN /\ procs' = [procs EXCEPT ![p] =
                         [pc |-> "cc_parent", u |-> u, post |-> postId, parent |-> parent,
                          content |-> content]]
          /\ UNCHANGED <<out, nextComment>>
     ELSE /\ procs' = [procs EXCEPT ![p] = NewComment(u, postId, 0, content)]
          /\ nextComment' = nextComment + 1
          /\ out' = out
  /\ tg' = TgNone
  /\ UNCHANGED <<posts, comments, now, nextPost>>

CreateCommentParent(p) ==
  /\ procs[p].pc = "cc_parent"
  /\ LET d == procs[p]
     IN IF d.parent \notin DOMAIN comments
        THEN /\ out' = RespMsg("createComment", 404, "Parent comment not found")
             /\ procs' = [procs EXCEPT ![p] = Idle]
             /\ nextComment' = nextComment
        ELSE IF ~SamePost(comments[d.parent].post, d.post)
        THEN /\ out' = RespMsg("createComment", 400,
                                 "Parent comment does not belong to this post")
             /\ procs' = [procs EXCEPT ![p] = Idle]
             /\ nextComment' = nextComment
        ELSE /\ procs' = [procs EXCEPT ![p] = NewComment(d.u, d.post, d.parent, d.content)]
             /\ nextComment' = nextComment + 1
             /\ out' = out
  /\ tg' = TgNone
  /\ UNCHANGED <<posts, comments, now, nextPost>>

\* { $addToSet: { replies: id } }
AddToSet(replies, id) ==
  IF \E i \in 1..Len(replies) : replies[i] = id THEN replies ELSE Append(replies, id)

\* { $pull: { replies: id } }
Pull(replies, id) == SelectSeq(replies, LAMBDA x : x # id)

CreateCommentLink(p) ==
  /\ procs[p].pc = "cc_link"
  /\ LET d == procs[p]
     IN comments' = IF d.parent \in DOMAIN comments
                    THEN [comments EXCEPT ![d.parent].replies = AddToSet(@, d.id)]
                    ELSE comments
  /\ procs' = [procs EXCEPT ![p].pc = "cc_insert"]
  /\ tg' = TgNone
  /\ UNCHANGED <<posts, now, nextPost, nextComment, out>>

CreateCommentInsert(p) ==
  /\ procs[p].pc = "cc_insert"
  /\ LET d == procs[p]
     IN comments' = Insert(comments, d.id,
                      [author |-> d.u, post |-> d.post, parent |-> d.parent,
                       replies |-> <<>>, status |-> "approved", likes |-> <<>>,
                       content |-> d.content, isEdited |-> FALSE, editedAt |-> 0,
                       v |-> 0])
  /\ out' = Resp("createComment", 201)
  /\ procs' = [procs EXCEPT ![p] = Idle]
  /\ tg' = TgNone
  /\ UNCHANGED <<posts, now, nextPost, nextComment>>

----------------------------------------------------------------------------
(* commentController.updateComment and the edit branch of pre('save') *)

UpdateCommentBegin(p, u, id, content) ==
  /\ procs[p].pc = "idle"
  /\ IF id \notin DOMAIN comments
     THEN /\ out' = Resp("updateComment", 404)
          /\ procs' = procs
     ELSE IF ~MayModify(u, comments[id].author)
     THEN /\ out' = Resp("updateComment", 403)
          /\ procs' = procs
     ELSE /\ out' = out
          /\ procs' = [procs EXCEPT ![p] =
                         [pc |-> "uc_save", id |-> id, content |-> content,
                          modified |-> content # comments[id].content]]
  /\ tg' = TgNone
  /\ UNCHANGED <<posts, comments, now, nextPost, nextComment>>

\* the paths save() sets when content was modified: content and the hook's
\* isEdited and editedAt (0 stands for a comment with no editedAt)
EditMarksPending(doc, content) ==
  [doc EXCEPT !.content = content, !.isEdited = TRUE, !.editedAt = now,
              !.status = "pending"]

EditMarks(doc, content) ==
  [doc EXCEPT !.content = content, !.isEdited = TRUE, !.editedAt = now]

\* save(): $set of content, isEdited, editedAt when content was modified, and
\* no update at all otherwise
UpdateCommentSave(p) ==
  /\ procs[p].pc = "uc_save"
  /\ LET d == procs[p]
     IN IF ~d.modified
        THEN /\ comments' = comments
             /\ out' = Resp("updateComment", 200)
        ELSE IF d.id \in DOMAIN comments
        THEN /\ comments' = [comments EXCEPT ![d.id] = EditMarks(@, d.content)]
             /\ out' = Resp("updateComment", 200)
        ELSE /\ comments' = comments
             /\ out' = Resp("updateComment", 500)
  /\ procs' = [procs EXCEPT ![p] = Idle]
  /\ tg' = TgNone
  /\ UNCHANGED <<posts, now, nextPost, nextComment>>

----------------------------------------------------------------------------
(* commentController.deleteComment and Comment's pre('findOneAndDelete')    *)

\* the comments that transitively reply to one of `ids`
RECURSIVE Subtree(_, _)
Subtree(store, ids) ==
  LET more == {c \in DOMAIN store : store[c].parent \in ids} \ ids
  IN IF more = {} THEN ids ELSE Subtree(store, ids \cup more)

\* `thread` is history: the comment and all that transitively replied to it
\* when the request was authorized
DeleteCommentBegin(p, u, id) ==
  /\ procs[p].pc = "idle"
  /\ IF id \notin DOMAIN comments
     THEN /\ out' = Resp("deleteComment", 404)
          /\ procs' = procs
     ELSE IF ~MayModify(u, comments[id].author)
     THEN /\ out' = Resp("deleteComment", 403)
          /\ procs' = procs
     ELSE /\ out' = out
          /\ procs' = [procs EXCEPT ![p] =
                         [pc |-> "dc_hook", id |-> id, parent |-> 0,
                          thread |-> Subtree(comments, {id})]]
  /\ tg' = TgNone
  /\ UNCHANGED <<posts, comments, now, nextPost, nextComment>>

\* the hook's findOne(this.getQuery())
DeleteCommentHookFind(p) ==
  /\ procs[p].pc = "dc_hook"
  /\ LET d == procs[p]
     IN procs' = [procs EXCEPT ![p] =
                    IF d.id \notin DOMAIN comments THEN [d EXCEPT !.pc = "dc_delete"]
                    ELSE IF comments[d.id].parent # 0
                    THEN [d EXCEPT !.pc = "dc_pull", !.parent = comments[d.id].parent]
                    ELSE [d EXCEPT !.pc = "dc_many"]]
  /\ tg' = TgNone
  /\ UNCHANGED <<posts, comments, now, nextPost, nextComment, out>>

\* the hook's findByIdAndUpdate(comment.parentComment, { $pull: ... })
DeleteCommentPull(p) ==
  /\ procs[p].pc = "dc_pull"
  /\ LET d == procs[p]
     IN comments' = IF d.parent \in DOMAIN comments
                    THEN [comments EXCEPT ![d.parent].replies = Pull(@, d.id)]
                    ELSE comments
  /\ procs' = [procs EXCEPT ![p].pc = "dc_many"]
  /\ tg' = TgNone
  /\ UNCHANGED <<posts, now, nextPost, nextComment, out>>

\* the hook's deleteMany({ parentComment: comment._id }): the direct replies
DeleteMany(store, id) == {c \in DOMAIN store : store[c].parent = id}

DeleteCommentMany(p) ==
  /\ procs[p].pc = "dc_many"
  /\ comments' = Remove(comments, DeleteMany(comments, procs[p].id))
  /\ procs' = [procs EXCEPT ![p].pc = "dc_delete"]
  /\ tg' = TgNone
  /\ UNCHANGED <<posts, now, nextPost, nextComment, out>>

\* the findOneAndDelete itself
DeleteCommentRemove(p) ==
  /\ procs[p].pc = "dc_delete"
  /\ comments' = Remove(comments, {procs[p].id})
  /\ out' = Resp("deleteComment", 200)
  /\ procs' = [procs EXCEPT ![p] = Idle]
  /\ tg' = TgNone
  /\ UNCHANGED <<posts, now, nextPost, nextComment>>

----------------------------------------------------------------------------
(* commentController.toggleCommentLike *)

\* comment.status !== 'approved'
CommentLikeable(status) == status = "approved"

ToggleCommentLikeBegin(p, u, id) ==
  /\ procs[p].pc = "idle"
  /\ IF id \notin DOMAIN comments
     THEN /\ out' = Resp("toggleCommentLike", 404)
          /\ procs' = procs
          /\ tg' = TgNone
     ELSE IF ~CommentLikeable(comments[id].status)
     THEN /\ out' = Resp("toggleCommentLike", 400)
          /\ procs' = procs
          /\ tg' = TgNone
     ELSE /\ comments[id].v < MaxVersion
          /\ out' = out
          /\ LET t == ToggleLikeDoc(comments[id].likes, u)
             IN procs' = [procs EXCEPT ![p] =
                            [pc |-> "tc_save", id |-> id, u |-> u, kind |-> t.kind,
                             likes |-> t.likes, v |-> comments[id].v]]
          /\ tg' = TgBegin(p, "comment", id, u, comments[id].likes)
  /\ UNCHANGED <<posts, comments, now, nextPost, nextComment>>

ToggleCommentLikeSave(p) ==
  /\ procs[p].pc = "tc_save"
  /\ LET d == procs[p]
     IN IF d.id \in DOMAIN comments /\ SaveMatches(comments[d.id], d)
        THEN /\ comments' = [comments EXCEPT ![d.id] = SaveLikes(@, d)]
             /\ out' = Resp("toggleCommentLike", 200)
             /\ tg' = TgSave(p, "comment", d.id)
        ELSE /\ comments' = comments
             /\ out' = Resp("toggleCommentLike", 500)
             /\ tg' = TgNone
  /\ procs' = [procs EXCEPT ![p] = Idle]
  /\ UNCHANGED <<posts, now, nextPost, nextComment>>

----------------------------------------------------------------------------
(* commentController.getCommentsByPost and Comment.statics.findByPost *)

DefaultCommentLimit == 20

\* includeReplies === 'true', where includeReplies is the query string, or
\* the boolean true when the query has none
IncludeRepliesUnlessFalse(q) == q # "false"

IncludeReplies(q) == q = "true"

\* options.includeAll of the handler's options object { includeReplies, sort }:
\* the key is never set, so that it reads as undefined
IncludeAll == FALSE

\* the statuses of findByPost's query:
\* options.includeAll ? { $in: ['pending', 'approved'] } : 'approved'
QueriedStatuses(includeAll) == IF includeAll THEN {"pending", "approved"} ELSE {"approved"}

\* the query of findByPost
FoundByPost(doc, postId, includeReplies) ==
  /\ doc.post = postId
  /\ doc.status \in QueriedStatuses(IncludeAll)
  /\ includeReplies \/ doc.parent = 0

\* .sort({ createdAt: 1 }); createdAt is set when save() is called, in the
\* turn that took the _id, so that _ids are in createdAt order
RECURSIVE OldestFirst(_)
OldestFirst(ids) ==
  IF ids = {} THEN <<>>
  ELSE LET m == CHOOSE x \in ids : \A y \in ids : x <= y
       IN <<m>> \o OldestFirst(ids \ {m})

Reverse(s) == [i \in 1..Len(s) |-> s[Len(s) + 1 - i]]

\* .sort({ createdAt: options.sort === 'oldest' ? 1 : -1 })
SortedByCreatedAt(ids, sort) ==
  IF sort = "oldest" THEN OldestFirst(ids) ELSE Reverse(OldestFirst(ids))

\* populate('replies'): the replies that are stored, in the list's order
Resolved(replies) == SelectSeq(replies, LAMBDA r : r \in DOMAIN comments)

\* BlogPost.findById(postId)
GetCommentsByPostBegin(p, postId, sort, includeReplies, page, limit) ==
  /\ procs[p].pc = "idle"
  /\ IF postId \notin DOMAIN posts
     THEN /\ out' = Resp("getCommentsByPost", 404)
          /\ procs' = procs
     ELSE /\ out' = out
          /\ procs' = [procs EXCEPT ![p] =
                         [pc |-> "gc_find", post |-> postId, sort |-> sort,
                          includeReplies |-> includeReplies, page |-> page, limit |-> limit]]
  /\ tg' = TgNone
  /\ UNCHANGED <<posts, comments, now, nextPost, nextComment>>

\* the find of findByPost(...).skip(...).limit(...): the documents of the
\* page, of which the listing keeps the _id and the replies
GetCommentsByPostFind(p) ==
  /\ procs[p].pc = "gc_find"
  /\ LET d == procs[p]
         ids == {c \in DOMAIN comments :
                   FoundByPost(comments[c], d.post, IncludeReplies(d.includeReplies))}
         page == Page(SortedByCreatedAt(ids, d.sort), d.page, d.limit)
     IN procs' = [procs EXCEPT ![p] =
                    [pc |-> "gc_populate",
                     found |-> [i \in 1..Len(page) |->
                                  [id |-> page[i], replies |-> comments[page[i]].replies]]]]
  /\ tg' = TgNone
  /\ UNCHANGED <<posts, comments, now, nextPost, nextComment, out>>

\* the queries of populate, then the response
GetCommentsByPostPopulate(p) ==
  /\ procs[p].pc = "gc_populate"
  /\ LET found == procs[p].found
     IN out' = [op |-> "getCommentsByPost", code |-> 200, msg |-> "",
                comments |-> [i \in 1..Len(found) |->
                                [found[i] EXCEPT !.replies = Resolved(@)]]]
  /\ procs' = [procs EXCEPT ![p] = Idle]
  /\ tg' = TgNone
  /\ UNCHANGED <<posts, comments, now, nextPost, nextComment>>

----------------------------------------------------------------------------
(* commentController.moderateComment, behind the route's auth and adminAuth *)

\* adminAuth lets administrators through and answers 403 to everyone else
AdminAuth(u) == Role(u) = "admin"

\* findByIdAndUpdate(id, { status }): $set of status
ModeratedAsEdit(doc, status) == [doc EXCEPT !.status = status, !.isEdited = TRUE]

Moderated(doc, status) == [doc EXCEPT !.status = status]

ModerateComment(p, u, id, status) ==
  /\ procs[p].pc = "idle"
  /\ IF ~AdminAuth(u)
     THEN /\ out' = Resp("moderateComment", 403)
          /\ comments' = comments
     ELSE IF status \notin CommentStatuses
     THEN /\ out' = Resp("moderateComment", 400)
          /\ comments' = comments
     ELSE IF id \notin DOMAIN comments
     THEN /\ out' = Resp("moderateComment", 404)
          /\ comments' = comments
     ELSE /\ out' = Resp("moderateComment", 200)
          /\ comments' = [comments EXCEPT ![id] = Moderated(@, status)]
  /\ tg' = TgNone
  /\ UNCHANGED <<posts, procs, now, nextPost, nextComment>>

----------------------------------------------------------------------------
(* The post page (BlogPost.jsx) of a logged-in user: the query that loads   *)
(* the post by its slug, the effect that sets the liked flag, and the like  *)
(* mutation.  The page's requests are served by the handlers above.         *)

\* postData is undefined until the query has data
NoData == [id |-> 0]

\* no page is open
NoPage == [user |-> Anon, post |-> NoData, liked |-> FALSE, query |-> "none",
           mutation |-> "idle"]

\* the values the page compares: the strings and the objects of the parsed
\* response
JsString(s) == [type |-> "string", value |-> s]

JsObject(o) == [type |-> "object", value |-> o]

\* SameValueZero, the comparison of Array.prototype.includes: strings are the
\* same value when they have the same characters, an object is the same value
\* as itself only (and no object of a parsed response is any other value the
\* page holds)
SameValueZero(a, b) == a.type = "string" /\ b.type = "string" /\ a.value = b.value

Includes(array, v) == \E i \in 1..Len(array) : SameValueZero(array[i], v)

\* post.likes?.includes(user._id) || false: likes are the entries { user,
\* createdAt } of the response, user._id is the id string of the auth context
LikesIncludeUser(post, user) ==
  Includes([i \in 1..Len(post.likes) |-> JsObject(post.likes[i])], JsString(user))

\* the query's response has arrived: on success the query holds the new data
\* (the same object as before when the data is deeply equal to the data it
\* held) and the effect on [post, user] runs when post is a new object
Arrived(pg, resp) ==
  IF resp.code = 200
  THEN [pg EXCEPT !.post = resp.post,
                  !.liked = IF resp.post # pg.post
                            THEN LikesIncludeUser(resp.post, pg.user) ELSE @,
                  !.query = "fresh"]
  ELSE [pg EXCEPT !.query = "failed"]

\* the page is mounted for user u: useState(false), and the query is enabled
PageOpen(u) ==
  /\ blogPage = NoPage
  /\ blogPage' = [user |-> u, post |-> NoData, liked |-> FALSE, query |-> "stale",
                  mutation |-> "idle"]
  /\ UNCHANGED <<posts, comments, procs, now, nextPost, nextComment, out, tg>>

\* the page is unmounted, with none of its requests in flight
PageClose ==
  /\ blogPage.query \in {"fresh", "failed"}
  /\ blogPage.mutation = "idle"
  /\ blogPage' = NoPage
  /\ UNCHANGED <<posts, comments, procs, now, nextPost, nextComment, out, tg>>

\* queryFn: postsAPI.getPostBySlug(slug), served in slot p; the response
\* arrives in this step when the handler answers without a save
PageFetch(p, slug) ==
  /\ blogPage.query = "stale"
  /\ GetPostBySlugBegin(p, blogPage.user, slug)
  /\ blogPage' = IF procs'[p].pc = "idle"
                 THEN Arrived(blogPage, out')
                 ELSE [blogPage EXCEPT !.query = "fetching"]

PageFetched(p) ==
  /\ blogPage.query = "fetching"
  /\ GetPostBySlugSave(p)
  /\ blogPage' = Arrived(blogPage, out')

\* handleLike with a user: likeMutation.mutate(), served in slot p; a
\* response of the first step is an error (onError: a toast)
PageLike(p) ==
  /\ blogPage.post # NoData
  /\ blogPage.mutation = "idle"
  /\ ToggleLikeBegin(p, blogPage.user, blogPage.post.id)
  /\ blogPage' = IF procs'[p].pc = "idle"
                 THEN blogPage
                 ELSE [blogPage EXCEPT !.mutation = "pending"]

\* onSuccess: setLiked(!liked) and invalidateQueries(['post', slug]), which
\* refetches; onError: a toast
PageLiked(p) ==
  /\ blogPage.mutation = "pending"
  /\ ToggleLikeSave(p)
  /\ blogPage' = IF out'.code = 200
                 THEN [blogPage EXCEPT !.liked = ~@, !.mutation = "idle",
                                       !.query = IF @ = "fetching" THEN @ ELSE "stale"]
                 ELSE [blogPage EXCEPT !.mutation = "idle"]

----------------------------------------------------------------------------
(* Specifications.  Each one starts from the empty stores unless it says    *)
(* otherwise and issues the requests of one part of the system.             *)

Init ==
  /\ posts = <<>>
  /\ comments = <<>>
  /\ procs = [p \in Procs |-> Idle]
  /\ now = 1
  /\ nextPost = 1
  /\ nextComment = 1
  /\ out = Resp("none", 0)
  /\ tg = TgNone
  /\ blogPage = NoPage

\* "Hi!" and "hi" slugify to the same slug; "hi 1" to its first suffixed form
TitleHi == <<"H", "i", "!">>
Titles == {<<"H", "i", "!">>, <<"h", "i">>, <<"h", "i", " ", "1">>}

\* Slugs: concurrent creation of posts, their retitling and their deletion
NextSlug ==
  \/ \E p \in Procs, t \in {TitleHi, <<"h", "i">>} : CreatePostBegin(p, "u1", t, "draft")
       /\ UNCHANGED blogPage
  \/ \E p \in Procs : CreatePostSlugCheck(p) /\ UNCHANGED blogPage
  \/ \E p \in Procs : CreatePostInsert(p) /\ UNCHANGED blogPage
  \/ \E id \in PostIds : UpdatePostBegin("r1", "u1", id, <<"h", "i", " ", "1">>, Undefined)
       /\ UNCHANGED blogPage
  \/ UpdatePostWrite("r1") /\ UNCHANGED blogPage
  \/ \E id \in PostIds : DeletePostBegin("r1", "u1", id) /\ UNCHANGED blogPage
  \/ DeletePostRemove("r1") /\ UNCHANGED blogPage

SpecSlug == Init /\ [][NextSlug]_vars

\* Publishing: one author's posts through their statuses, liked and viewed
NextPublish ==
  \/ \E s \in {"draft", "published"} : CreatePostBegin("r1", "u1", TitleHi, s) /\ UNCHANGED blogPage
  \/ CreatePostSlugCheck("r1") /\ UNCHANGED blogPage
  \/ CreatePostInsert("r1") /\ UNCHANGED blogPage
  \/ \E id \in PostIds, s \in Statuses : UpdatePostBegin("r1", "u1", id, NoTitle, s)
       /\ UNCHANGED blogPage
  \/ UpdatePostWrite("r1") /\ UNCHANGED blogPage
  \/ ToggleLikeBegin("r2", "u2", 1) /\ UNCHANGED blogPage
  \/ ToggleLikeSave("r2") /\ UNCHANGED blogPage
  \/ \E slug \in {Slugify(TitleHi)} : GetPostBySlugBegin("r2", Anon, slug) /\ UNCHANGED blogPage
  \/ GetPostBySlugSave("r2") /\ UNCHANGED blogPage

SpecPublish == Init /\ [][NextPublish]_vars

\* Comments: replies on published and draft posts, created two requests at a
\* time, with deletions of comments in between
NextComment ==
  \/ \E s \in {"draft", "published"} : CreatePostBegin("r1", "u1", TitleHi, s) /\ UNCHANGED blogPage
  \/ CreatePostSlugCheck("r1") /\ UNCHANGED blogPage
  \/ CreatePostInsert("r1") /\ UNCHANGED blogPage
  \/ \E p \in Procs, postId \in PostIds, parent \in {0} \cup CommentIds :
       CreateCommentBegin(p, "u1", postId, parent, "a") /\ UNCHANGED blogPage
  \/ \E p \in Procs : CreateCommentParent(p) /\ UNCHANGED blogPage
  \/ \E p \in Procs : CreateCommentLink(p) /\ UNCHANGED blogPage
  \/ \E p \in Procs : CreateCommentInsert(p) /\ UNCHANGED blogPage
  \/ \E id \in CommentIds : DeleteCommentBegin("r2", "u1", id) /\ UNCHANGED blogPage
  \/ DeleteCommentHookFind("r2") /\ UNCHANGED blogPage
  \/ DeleteCommentPull("r2") /\ UNCHANGED blogPage
  \/ DeleteCommentMany("r2") /\ UNCHANGED blogPage
  \/ DeleteCommentRemove("r2") /\ UNCHANGED blogPage

SpecComment == Init /\ [][NextComment]_vars

\* A published post of u1 with one approved top-level comment of u1: the state
\* SpecThread is in after createPost and createComment have answered 201
Seeded ==
  /\ posts = 1 :> [title |-> TitleHi, slug |-> Slugify(TitleHi), author |-> "u1",
                   status |-> "published", publishedAt |-> 1, likes |-> <<>>,
                   views |-> 0, v |-> 0, featuredImage |-> "", images |-> <<>>]
  /\ comments = 1 :> [author |-> "u1", post |-> 1, parent |-> 0, replies |-> <<>>,
                      status |-> "approved", likes |-> <<>>, content |-> "a",
                      isEdited |-> FALSE, editedAt |-> 0, v |-> 0]
  /\ procs = [p \in Procs |-> Idle]
  /\ now = 2
  /\ nextPost = 2
  /\ nextComment = 2
  /\ out = Resp("createComment", 201)
  /\ tg = TgNone
  /\ blogPage = NoPage

\* The seeded post with a featured image and two images more.  No handler
\* here writes post.images: the schema declares it and deletePost reads it.
SeededImages ==
  /\ posts = 1 :> [title |-> TitleHi, slug |-> Slugify(TitleHi), author |-> "u1",
                   status |-> "published", publishedAt |-> 1, likes |-> <<>>,
                   views |-> 0, v |-> 0, featuredImage |-> "f", images |-> <<"g", "h">>]
  /\ comments = <<>>
  /\ procs = [p \in Procs |-> Idle]
  /\ now = 2
  /\ nextPost = 2
  /\ nextComment = 1
  /\ out = Resp("createPost", 201)
  /\ tg = TgNone
  /\ blogPage = NoPage

\* Images: the author, another user and an administrator ask to delete the
\* post, two requests at a time, and the media service fails at will
NextImages ==
  \/ \E p \in Procs, u \in Users, id \in PostIds : DeletePostBegin(p, u, id) /\ UNCHANGED blogPage
  \/ \E p \in Procs, ok \in BOOLEAN : DeletePostImage(p, ok) /\ UNCHANGED blogPage
  \/ \E p \in Procs : DeletePostRemove(p) /\ UNCHANGED blogPage

SpecImages == SeededImages /\ [][NextImages]_vars

\* Threads: one request at a time
NextThread ==
  \/ CreatePostBegin("r1", "u1", TitleHi, "published") /\ UNCHANGED blogPage
  \/ CreatePostSlugCheck("r1") /\ UNCHANGED blogPage
  \/ CreatePostInsert("r1") /\ UNCHANGED blogPage
  \/ \E id \in PostIds : DeletePostBegin("r1", "u1", id) /\ UNCHANGED blogPage
  \/ DeletePostRemove("r1") /\ UNCHANGED blogPage
  \/ \E postId \in PostIds, parent \in {0} \cup CommentIds :
       CreateCommentBegin("r1", "u1", postId, parent, "a") /\ UNCHANGED blogPage
  \/ CreateCommentParent("r1") /\ UNCHANGED blogPage
  \/ CreateCommentLink("r1") /\ UNCHANGED blogPage
  \/ CreateCommentInsert("r1") /\ UNCHANGED blogPage
  \/ \E id \in CommentIds : DeleteCommentBegin("r1", "u1", id) /\ UNCHANGED blogPage
  \/ DeleteCommentHookFind("r1") /\ UNCHANGED blogPage
  \/ DeleteCommentPull("r1") /\ UNCHANGED blogPage
  \/ DeleteCommentMany("r1") /\ UNCHANGED blogPage
  \/ DeleteCommentRemove("r1") /\ UNCHANGED blogPage

SpecThread == Init /\ [][NextThread]_vars

\* Likes: two users toggle their like of the seeded post and comment, two
\* requests at a time
NextLike ==
  \/ \E p \in Procs, u \in {"u1", "u2"} : ToggleLikeBegin(p, u, 1) /\ UNCHANGED blogPage
  \/ \E p \in Procs : ToggleLikeSave(p) /\ UNCHANGED blogPage
  \/ \E p \in Procs, u \in {"u1", "u2"} : ToggleCommentLikeBegin(p, u, 1) /\ UNCHANGED blogPage
  \/ \E p \in Procs : ToggleCommentLikeSave(p) /\ UNCHANGED blogPage

SpecLike == Seeded /\ [][NextLike]_vars

\* Ownership: the author, another user and an administrator update and delete
\* the seeded post and comment, one request at a time
NextAuth ==
  \/ \E u \in Users, id \in PostIds, s \in {"archived", "published"} :
       UpdatePostBegin("r1", u, id, NoTitle, s) /\ UNCHANGED blogPage
  \/ UpdatePostWrite("r1") /\ UNCHANGED blogPage
  \/ \E u \in Users, id \in PostIds : DeletePostBegin("r1", u, id) /\ UNCHANGED blogPage
  \/ DeletePostRemove("r1") /\ UNCHANGED blogPage
  \/ \E u \in Users, id \in {1, 2}, c \in {"a", "b"} : UpdateCommentBegin("r1", u, id, c)
       /\ UNCHANGED blogPage
  \/ UpdateCommentSave("r1") /\ UNCHANGED blogPage
  \/ \E u \in Users, id \in {1, 2} : DeleteCommentBegin("r1", u, id) /\ UNCHANGED blogPage
  \/ DeleteCommentHookFind("r1") /\ UNCHANGED blogPage
  \/ DeleteCommentMany("r1") /\ UNCHANGED blogPage
  \/ DeleteCommentRemove("r1") /\ UNCHANGED blogPage

SpecAuth == Seeded /\ [][NextAuth]_vars

\* Views: the author, another user and an anonymous reader open the seeded
\* post, two requests at a time, while the author archives and republishes it
\* and a reader likes it
NextView ==
  \/ \E p \in Procs, viewer \in {Anon, "u1", "u2"} :
       GetPostBySlugBegin(p, viewer, Slugify(TitleHi)) /\ UNCHANGED blogPage
  \/ \E p \in Procs : GetPostBySlugSave(p) /\ UNCHANGED blogPage
  \/ \E s \in {"archived", "published"} : UpdatePostBegin("r1", "u1", 1, NoTitle, s)
       /\ UNCHANGED blogPage
  \/ UpdatePostWrite("r1") /\ UNCHANGED blogPage
  \/ ToggleLikeBegin("r2", "u2", 1) /\ UNCHANGED blogPage
  \/ ToggleLikeSave("r2") /\ UNCHANGED blogPage

SpecView == Seeded /\ [][NextView]_vars

\* Slugs in sequence: posts are created one request at a time, by two
\* authors, with titles that share slugs ("Hi!", "hi") or a suffixed form
\* ("hi 1"), and nothing is deleted
NextSeq ==
  \/ \E u \in {"u1", "u2"}, t \in Titles, s \in {"draft", "published"} :
       CreatePostBegin("r1", u, t, s) /\ UNCHANGED blogPage
  \/ CreatePostSlugCheck("r1") /\ UNCHANGED blogPage
  \/ CreatePostInsert("r1") /\ UNCHANGED blogPage

SpecSeq == Init /\ [][NextSeq]_vars

\* Listing: an author's posts go through their statuses while the author,
\* another user, an administrator and an anonymous caller list the posts
NextList ==
  \/ \E s \in {"draft", "published"} : CreatePostBegin("r1", "u1", TitleHi, s) /\ UNCHANGED blogPage
  \/ CreatePostSlugCheck("r1") /\ UNCHANGED blogPage
  \/ CreatePostInsert("r1") /\ UNCHANGED blogPage
  \/ \E id \in PostIds, s \in Statuses : UpdatePostBegin("r1", "u1", id, NoTitle, s)
       /\ UNCHANGED blogPage
  \/ UpdatePostWrite("r1") /\ UNCHANGED blogPage
  \/ \E u \in Users \cup {Anon}, status \in Statuses \cup {Undefined},
         author \in {Undefined, "u1"}, match \in {PostIds, {1}},
         pl \in {<<1, DefaultLimit>>, <<1, 1>>, <<2, 1>>} :
       GetPosts("r2", u, status, author, match, pl[1], pl[2]) /\ UNCHANGED blogPage

SpecList == Init /\ [][NextList]_vars

\* Likeable: readers toggle their like of the seeded post and comment while
\* the author moves the post through its statuses and an administrator
\* moderates the comment
NextLikeable ==
  \/ \E s \in Statuses : UpdatePostBegin("r1", "u1", 1, NoTitle, s) /\ UNCHANGED blogPage
  \/ UpdatePostWrite("r1") /\ UNCHANGED blogPage
  \/ \E s \in CommentStatuses : ModerateComment("r1", "adm", 1, s) /\ UNCHANGED blogPage
  \/ \E u \in {"u1", "u2"}, id \in PostIds : ToggleLikeBegin("r2", u, id) /\ UNCHANGED blogPage
  \/ ToggleLikeSave("r2") /\ UNCHANGED blogPage
  \/ \E u \in {"u1", "u2"}, id \in {1, 2} : ToggleCommentLikeBegin("r2", u, id)
       /\ UNCHANGED blogPage
  \/ ToggleCommentLikeSave("r2") /\ UNCHANGED blogPage

SpecLikeable == Seeded /\ [][NextLikeable]_vars

\* Moderation: every user asks to moderate the seeded comment and its
\* replies, with valid and invalid statuses, while replies to it are created
\* and it is edited and liked
NextModerate ==
  \/ \E u \in Users, id \in {1, 2}, s \in CommentStatuses \cup {"deleted"} :
       ModerateComment("r1", u, id, s) /\ UNCHANGED blogPage
  \/ CreateCommentBegin("r2", "u2", 1, 1, "a") /\ UNCHANGED blogPage
  \/ CreateCommentParent("r2") /\ UNCHANGED blogPage
  \/ CreateCommentLink("r2") /\ UNCHANGED blogPage
  \/ CreateCommentInsert("r2") /\ UNCHANGED blogPage
  \/ UpdateCommentBegin("r2", "u1", 1, "b") /\ UNCHANGED blogPage
  \/ UpdateCommentSave("r2") /\ UNCHANGED blogPage
  \/ ToggleCommentLikeBegin("r2", "u2", 1) /\ UNCHANGED blogPage
  \/ ToggleCommentLikeSave("r2") /\ UNCHANGED blogPage

SpecModerate == Seeded /\ [][NextModerate]_vars

\* Comment statuses: an administrator moderates the seeded comment while it
\* is edited, liked and replied to, and while its replies are deleted
NextStatus ==
  \/ \E s \in CommentStatuses : ModerateComment("r1", "adm", 1, s) /\ UNCHANGED blogPage
  \/ CreateCommentBegin("r2", "u2", 1, 1, "a") /\ UNCHANGED blogPage
  \/ CreateCommentParent("r2") /\ UNCHANGED blogPage
  \/ CreateCommentLink("r2") /\ UNCHANGED blogPage
  \/ CreateCommentInsert("r2") /\ UNCHANGED blogPage
  \/ UpdateCommentBegin("r2", "u1", 1, "b") /\ UNCHANGED blogPage
  \/ UpdateCommentSave("r2") /\ UNCHANGED blogPage
  \/ ToggleCommentLikeBegin("r2", "u2", 1) /\ UNCHANGED blogPage
  \/ ToggleCommentLikeSave("r2") /\ UNCHANGED blogPage
  \/ \E id \in {2, 3} : DeleteCommentBegin("r2", "u2", id) /\ UNCHANGED blogPage
  \/ DeleteCommentHookFind("r2") /\ UNCHANGED blogPage
  \/ DeleteCommentPull("r2") /\ UNCHANGED blogPage
  \/ DeleteCommentMany("r2") /\ UNCHANGED blogPage
  \/ DeleteCommentRemove("r2") /\ UNCHANGED blogPage

SpecStatus == Seeded /\ [][NextStatus]_vars

\* Comment lists: comments and replies are created on two published posts
\* and an administrator moderates them, while the comments of a post are
\* listed newest or oldest first, with and without the replies
NextComments ==
  \/ CreatePostBegin("r1", "u1", TitleHi, "published") /\ UNCHANGED blogPage
  \/ CreatePostSlugCheck("r1") /\ UNCHANGED blogPage
  \/ CreatePostInsert("r1") /\ UNCHANGED blogPage
  \/ \E postId \in {1, 2}, parent \in {0, 1} :
       CreateCommentBegin("r1", "u2", postId, parent, "a") /\ UNCHANGED blogPage
  \/ CreateCommentParent("r1") /\ UNCHANGED blogPage
  \/ CreateCommentLink("r1") /\ UNCHANGED blogPage
  \/ CreateCommentInsert("r1") /\ UNCHANGED blogPage
  \/ \E id \in {1, 2}, s \in {"pending", "approved"} : ModerateComment("r1", "adm", id, s)
       /\ UNCHANGED blogPage
  \/ \E postId \in {1, 2}, sort \in {Undefined, "oldest"},
         includeReplies \in {Undefined, "true"} :
       GetCommentsByPostBegin("r2", postId, sort, includeReplies, 1, DefaultCommentLimit)
       /\ UNCHANGED blogPage
  \/ GetCommentsByPostFind("r2") /\ UNCHANGED blogPage
  \/ GetCommentsByPostPopulate("r2") /\ UNCHANGED blogPage

SpecComments == Seeded /\ [][NextComments]_vars

\* Creation: two authors create posts with each status a body can carry, and
\* with none
NextCreate ==
  \/ \E p \in Procs, s \in Statuses \cup {Undefined} :
       CreatePostBegin(p, IF p = "r1" THEN "u1" ELSE "u2", TitleHi, s) /\ UNCHANGED blogPage
  \/ \E p \in Procs : CreatePostSlugCheck(p) /\ UNCHANGED blogPage
  \/ \E p \in Procs : CreatePostInsert(p) /\ UNCHANGED blogPage

SpecCreate == Init /\ [][NextCreate]_vars

\* Likes of two users: u1 toggles in one request slot and u2 in the other,
\* on the seeded post and on its comment
NextLikeTwo ==
  \/ ToggleLikeBegin("r1", "u1", 1) /\ UNCHANGED blogPage
  \/ ToggleLikeBegin("r2", "u2", 1) /\ UNCHANGED blogPage
  \/ \E p \in Procs : ToggleLikeSave(p) /\ UNCHANGED blogPage
  \/ ToggleCommentLikeBegin("r1", "u1", 1) /\ UNCHANGED blogPage
  \/ ToggleCommentLikeBegin("r2", "u2", 1) /\ UNCHANGED blogPage
  \/ \E p \in Procs : ToggleCommentLikeSave(p) /\ UNCHANGED blogPage

SpecLikeTwo == Seeded /\ [][NextLikeTwo]_vars

\* Edits: the author, another user and an administrator update the seeded
\* comment, with its own content and with another, while it is moderated,
\* liked and replied to
NextEdit ==
  \/ \E u \in Users, c \in {"a", "b"} : UpdateCommentBegin("r1", u, 1, c) /\ UNCHANGED blogPage
  \/ UpdateCommentSave("r1") /\ UNCHANGED blogPage
  \/ \E s \in {"pending", "approved"} : ModerateComment("r2", "adm", 1, s) /\ UNCHANGED blogPage
  \/ ToggleCommentLikeBegin("r2", "u2", 1) /\ UNCHANGED blogPage
  \/ ToggleCommentLikeSave("r2") /\ UNCHANGED blogPage
  \/ CreateCommentBegin("r2", "u2", 1, 1, "a") /\ UNCHANGED blogPage
  \/ CreateCommentParent("r2") /\ UNCHANGED blogPage
  \/ CreateCommentLink("r2") /\ UNCHANGED blogPage
  \/ CreateCommentInsert("r2") /\ UNCHANGED blogPage

SpecEdit == Seeded /\ [][NextEdit]_vars

\* Reading: the author moves the seeded post through its statuses while the
\* author, another user, an administrator and anonymous callers fetch it
NextRead ==
  \/ \E s \in Statuses : UpdatePostBegin("r1", "u1", 1, NoTitle, s) /\ UNCHANGED blogPage
  \/ UpdatePostWrite("r1") /\ UNCHANGED blogPage
  \/ \E p \in Procs, viewer \in Users \cup {Anon} :
       GetPostBySlugBegin(p, viewer, Slugify(TitleHi)) /\ UNCHANGED blogPage
  \/ \E p \in Procs : GetPostBySlugSave(p) /\ UNCHANGED blogPage

SpecRead == Seeded /\ [][NextRead]_vars

\* The post page: a user opens the page of the seeded post, likes and
\* unlikes the post there and closes the page, the page's requests going
\* through slot r1, while another user likes and unlikes the post
NextPage ==
  \/ \E u \in {"u1", "u2"} : PageOpen(u)
  \/ PageClose
  \/ PageFetch("r1", Slugify(TitleHi))
  \/ PageFetched("r1")
  \/ PageLike("r1")
  \/ PageLiked("r1")
  \/ ToggleLikeBegin("r2", "adm", 1) /\ UNCHANGED blogPage
  \/ ToggleLikeSave("r2") /\ UNCHANGED blogPage

SpecPage == Seeded /\ [][NextPage]_vars

\* SpecSlug with the scheduling of the hook's loop: the database answers every
\* findOne and the event loop then runs the continuation of the await, so
\* that a request whose next uniqueness check can be made does make it
SpecSlugLive ==
  SpecSlug /\ \A p \in Procs : WF_vars(CreatePostSlugCheck(p) /\ UNCHANGED blogPage)

----------------------------------------------------------------------------
(* Properties *)

\* C1: in every reachable state, concurrent creations with one slug base
\* included, no two stored posts have the same slug and every stored slug is
\* lowercase.
C1_SlugsUniqueLowercase ==
  \A a \in DOMAIN posts :
    /\ IsLower(posts[a].slug)
    /\ \A b \in DOMAIN posts : a # b => posts[a].slug # posts[b].slug

\* two creations passed the hook's check with the same slug; the second insert
\* was refused
C1_Witness ==
  /\ out = Resp("createPost", 500)
  /\ \E a \in DOMAIN posts : posts[a].slug = Slugify(TitleHi) /\ posts[a].title = TitleHi

NoDangling(store) ==
  \A c \in DOMAIN store :
    /\ store[c].parent # 0 => store[c].parent \in DOMAIN store
    /\ \A i \in 1..Len(store[c].replies) : store[c].replies[i] \in DOMAIN store

\* C2: a delete request that answers 200 has removed the comment and every
\* comment that transitively replied to it (N + 1 records), and leaves no
\* comment whose parent reference or reply list names a removed comment.
C2_DeleteRemovesThread ==
  [][\A p \in Procs :
       DeleteCommentRemove(p) =>
         /\ procs[p].thread \cap DOMAIN comments' = {}
         /\ NoDangling(comments')]_vars

\* C3: in every reachable state a post with status published has a publishedAt.
C3_PublishedHasDate ==
  \A id \in DOMAIN posts : posts[id].status = "published" => posts[id].publishedAt # 0

\* C4: once a post's publishedAt is set, no step changes it.
C4_PublishedAtImmutable ==
  [][\A id \in DOMAIN posts :
       (posts[id].publishedAt # 0 /\ id \in DOMAIN posts')
         => posts'[id].publishedAt = posts[id].publishedAt]_vars

\* a post published at creation, since liked, viewed and archived, with the
\* update that publishes it again in flight
C4_Witness ==
  \E id \in DOMAIN posts :
    /\ posts[id].publishedAt # 0
    /\ posts[id].status = "archived"
    /\ posts[id].likes # <<>>
    /\ posts[id].views > 0
    /\ procs["r1"] = [pc |-> "up_write", id |-> id, title |-> NoTitle, status |-> "published"]

\* C5: in every reachable state the post of each comment exists.
C5_CommentsHavePost == \A c \in DOMAIN comments : comments[c].post \in DOMAIN posts

\* C6: two consecutive successful toggleLike requests of one user on one post
\* or comment, with no step of another request in between, leave the like list
\* with the members and the length it had before.
C6_ToggleTwiceRestores ==
  tg.n = 4 =>
    LET cur == IF tg.kind = "post" THEN posts[tg.id].likes ELSE comments[tg.id].likes
    IN Members(cur) = Members(tg.before) /\ Len(cur) = Len(tg.before)

\* C7: in every reachable state, concurrent toggles of one user included, the
\* like list of a post or comment holds each user at most once.
C7_NoDuplicateLikes ==
  /\ \A id \in DOMAIN posts : NoDuplicates(posts[id].likes)
  /\ \A c \in DOMAIN comments : NoDuplicates(comments[c].likes)

\* C8: a create-comment request whose parent belongs to another post than the
\* request's is answered 400, creates no comment and changes no reply list; and
\* in every reachable state a reply and its parent belong to the same post.
C8_ReplySamePost ==
  /\ [](\A c \in DOMAIN comments :
          comments[c].parent \in DOMAIN comments
            => comments[comments[c].parent].post = comments[c].post)
  /\ [][\A p \in Procs :
          (/\ CreateCommentParent(p)
           /\ procs[p].parent \in DOMAIN comments
           /\ comments[procs[p].parent].post # procs[p].post)
            => /\ out' = RespMsg("createComment", 400,
                                 "Parent comment does not belong to this post")
               /\ procs'[p] = Idle
               /\ comments' = comments
               /\ nextComment' = nextComment]_vars

\* the rejection has happened, and a reply stands in a thread of the other post
C8_Witness ==
  /\ out = RespMsg("createComment", 400, "Parent comment does not belong to this post")
  /\ \E c \in DOMAIN comments : comments[c].parent \in DOMAIN comments

\* C9: a create-comment request is rejected, creating no comment and changing
\* no reply list, when its post does not exist (404) or is not published (400),
\* or when the parent it names does not exist (404).
C9_CreateRejected ==
  [][/\ \A p \in Procs, postId \in PostIds, parent \in {0} \cup CommentIds :
          (/\ CreateCommentBegin(p, "u1", postId, parent, "a")
           /\ (postId \notin DOMAIN posts \/ posts[postId].status # "published"))
            => /\ out'.op = "createComment"
               /\ out'.code = IF postId \in DOMAIN posts THEN 400 ELSE 404
               /\ procs'[p] = Idle
               /\ comments' = comments
               /\ nextComment' = nextComment
     /\ \A p \in Procs :
          (CreateCommentParent(p) /\ procs[p].parent \notin DOMAIN comments)
            => /\ out' = RespMsg("createComment", 404, "Parent comment not found")
               /\ procs'[p] = Idle
               /\ comments' = comments
               /\ nextComment' = nextComment]_vars

\* each of the three rejections has a state: this one is the missing parent,
\* with a comment stored and a draft post at hand
C9_Witness ==
  /\ out = RespMsg("createComment", 404, "Parent comment not found")
  /\ comments # <<>>
  /\ \E id \in DOMAIN posts : posts[id].status = "draft"

\* C10: post update, post delete, comment update and comment delete answer
\* 403 when the target exists and the caller is neither its author nor an
\* administrator, 404 when the target does not exist, and in both cases leave
\* the stored posts and comments as they were.
Refused(p, op, exists, author, u) ==
  /\ ~exists => out' = Resp(op, 404)
  /\ (exists /\ author # u /\ Role(u) # "admin") => out' = Resp(op, 403)
  /\ (~exists \/ (author # u /\ Role(u) # "admin"))
       => /\ procs'[p] = Idle
          /\ posts' = posts
          /\ comments' = comments

PostAuthor(id) == IF id \in DOMAIN posts THEN posts[id].author ELSE "none"

CommentAuthor(id) == IF id \in DOMAIN comments THEN comments[id].author ELSE "none"

C10_OwnerOrAdmin ==
  [][\A p \in Procs, u \in Users :
       /\ \A id \in PostIds :
            /\ (\E s \in Statuses : UpdatePostBegin(p, u, id, NoTitle, s))
                 => Refused(p, "updatePost", id \in DOMAIN posts, PostAuthor(id), u)
            /\ DeletePostBegin(p, u, id)
                 => Refused(p, "deletePost", id \in DOMAIN posts, PostAuthor(id), u)
       /\ \A id \in CommentIds :
            /\ (\E c \in {"a", "b"} : UpdateCommentBegin(p, u, id, c))
                 => Refused(p, "updateComment", id \in DOMAIN comments, CommentAuthor(id), u)
            /\ DeleteCommentBegin(p, u, id)
                 => Refused(p, "deleteComment", id \in DOMAIN comments, CommentAuthor(id), u)]_vars

\* all four requests have been refused to u2, whose last one was the comment
\* delete; the post and the comment of u1 are as seeded
C10_Witness ==
  /\ out = Resp("deleteComment", 403)
  /\ 1 \in DOMAIN posts /\ posts[1].status = "published"
  /\ 1 \in DOMAIN comments /\ ~comments[1].isEdited

C10_WitnessUpdatePost == out = Resp("updatePost", 403)

C10_WitnessDeletePost == out = Resp("deletePost", 403)

C10_WitnessUpdateComment == out = Resp("updateComment", 403)

C10_WitnessNotFound == out = Resp("updateComment", 404) /\ posts = <<>>

\* C11: when the insert of a new post is refused because its slug was written
\* concurrently, the request does not fail at once: it saves a second time, and
\* answers 500 only when that second save is refused as well.
C11_RetriedOnce ==
  [][\A p \in Procs :
       (CreatePostInsert(p) /\ out' = Resp("createPost", 500)) => procs[p].saves = 2]_vars

\* C12: every view request that counts (its save answers 200) leaves the
\* stored counter one above what it was, so that n of them raise it by n
\* however they interleave; and no step makes a stored counter smaller.
C12_ViewsMonotonic ==
  [][/\ \A p \in Procs :
          (GetPostBySlugSave(p) /\ out'.code = 200)
            => posts'[procs[p].id].views = posts[procs[p].id].views + 1
     /\ \A id \in DOMAIN posts \cap DOMAIN posts' :
          posts'[id].views >= posts[id].views]_vars

\* a slug the hook derives from a title with slugified form `base`
DerivedSlug(slug, base) ==
  slug = base \/ \E k \in 1..MaxPosts : slug = base \o <<"-">> \o Digits(k)

\* C13: an update that answers 200 and changes the title leaves the post with
\* a slug derived from the new title (its slugified form, or that form with a
\* numeric suffix) that no other post has; an update that does not change the
\* title leaves the slug as it was.
C13_UpdateRederives ==
  [][\A p \in Procs :
       (UpdatePostWrite(p) /\ out' = Resp("updatePost", 200))
         => LET d == procs[p]
            IN IF d.title # NoTitle /\ d.title # posts[d.id].title
               THEN /\ DerivedSlug(posts'[d.id].slug, Slugify(d.title))
                    /\ \A q \in DOMAIN posts' \ {d.id} : posts'[q].slug # posts'[d.id].slug
               ELSE posts'[d.id].slug = posts[d.id].slug]_vars

\* the posts created with title t before post id (ids are taken in creation
\* order, and SpecSeq neither deletes nor retitles)
Earlier(id, t) == Cardinality({q \in DOMAIN posts : q < id /\ posts[q].title = t})

InSuffixOrder(id) ==
  LET t == posts[id].title
      k == Earlier(id, t)
  IN posts[id].slug = IF k = 0 THEN Slugify(t) ELSE Slugify(t) \o <<"-">> \o Digits(k)

NoOtherHolder(t) ==
  \A q \in DOMAIN posts : posts[q].title # t => ~DerivedSlug(posts[q].slug, Slugify(t))

C15_ListPublishedOnly ==
  [][(/\ out'.op = "getPosts"
      /\ UNCHANGED <<posts, comments, procs, now, nextPost, nextComment>>
      /\ (out'.to = Anon \/ Role(out'.to) # "admin"))
       => \A i \in 1..Len(out'.posts) :
            LET id == out'.posts[i]
            IN /\ id \in DOMAIN posts
               /\ posts[id].status = "published"
               /\ posts[id].publishedAt # 0
               /\ posts[id].publishedAt <= now]_vars

\* the author was sent a list with the one post that is published and dated,
\* while the author's other post is published with no date or not published
C15_Witness ==
  /\ out.op = "getPosts" /\ out.to = "u1" /\ out.posts = <<1>>
  /\ DOMAIN posts = {1, 2}
  /\ posts[2].author = "u1"
  /\ posts[2].status # "published" \/ posts[2].publishedAt = 0

\* C16: a toggleLike request on a post that is not published, or on a comment
\* that is not approved, is answered 400 and ends there, leaving the posts and
\* comments, their like lists included, as they were.
C16_LikeableOnly ==
  [][\A p \in Procs, u \in Users :
       /\ \A id \in DOMAIN posts :
            (ToggleLikeBegin(p, u, id) /\ posts[id].status # "published")
              => /\ out' = Resp("toggleLike", 400)
                 /\ procs'[p] = Idle
                 /\ posts' = posts
       /\ \A id \in DOMAIN comments :
            (ToggleCommentLikeBegin(p, u, id) /\ comments[id].status # "approved")
              => /\ out' = Resp("toggleCommentLike", 400)
                 /\ procs'[p] = Idle
                 /\ comments' = comments]_vars

\* the like of a comment marked as spam was refused; the comment and the
\* post, now archived, keep the likes they got while they were likeable
C16_Witness ==
  /\ out = Resp("toggleCommentLike", 400)
  /\ comments[1].status = "spam" /\ comments[1].likes = <<"u2">>
  /\ posts[1].status = "archived" /\ posts[1].likes = <<"u2">>

C16_WitnessPost == out = Resp("toggleLike", 400) /\ posts[1].status = "draft"

\* C17: a moderate request by a caller who is not an administrator is
\* answered 403; by an administrator, for a stored comment and a status in
\* {pending, approved, rejected, spam}, it is answered 200 and sets that
\* comment's status to the requested value whatever it was, every other field
\* of it and every other comment staying as it was; every other moderate
\* request changes no comment; and none changes a post.
C17_ModerateOnlyStatus ==
  [][\A u \in Users, id \in {1, 2}, s \in CommentStatuses \cup {"deleted"} :
       ModerateComment("r1", u, id, s)
         => /\ posts' = posts
            /\ Role(u) # "admin" => out' = Resp("moderateComment", 403)
            /\ IF Role(u) = "admin" /\ id \in DOMAIN comments /\ s \in CommentStatuses
               THEN /\ out' = Resp("moderateComment", 200)
                    /\ comments' = [comments EXCEPT ![id].status = s]
               ELSE /\ out'.code \in {400, 403, 404}
                    /\ comments' = comments]_vars

\* the seeded comment, edited, liked and replied to, has been marked as spam;
\* its reply is still approved
C17_Witness ==
  /\ out = Resp("moderateComment", 200)
  /\ DOMAIN comments = {1, 2}
  /\ comments[1].status = "spam" /\ comments[1].isEdited
  /\ comments[1].likes = <<"u2">> /\ comments[1].replies = <<2>>
  /\ comments[2].status = "approved" /\ comments[2].parent = 1

C17_WitnessRefused == out = Resp("moderateComment", 403) /\ comments[1].status = "rejected"

\* C18: a comment is stored with status approved, and the status of a stored
\* comment changes only in a step of a moderate request for that comment and
\* that status: no step of a comment update, a like toggle, the creation of a
\* reply or the deletion of another comment changes it.
C18_StatusByModerateOnly ==
  [][/\ \A c \in DOMAIN comments' \ DOMAIN comments : comments'[c].status = "approved"
     /\ \A c \in DOMAIN comments \cap DOMAIN comments' :
          comments'[c].status # comments[c].status
            => \E p \in Procs, u \in Users : ModerateComment(p, u, c, comments'[c].status)]_vars

\* the seeded comment was rejected and has since been edited and replied to,
\* after another comment was created and deleted; the reply is approved
C18_Witness ==
  /\ DOMAIN comments = {1, 3}
  /\ comments[1].status = "rejected" /\ comments[1].isEdited
  /\ comments[1].replies = <<3>>
  /\ comments[3].status = "approved"
  /\ \A p \in Procs : procs[p] = Idle

\* C19: once deletePost has passed the ownership check, every image deletion,
\* whether it returns or throws, only moves the request on to the next image
\* or to the removal, with no response sent and no post changed; and the
\* removal comes after every image was tried, removes the post and answers 200.
C19_DeleteDespiteImages ==
  [][\A p \in Procs :
       /\ (\E ok \in BOOLEAN : DeletePostImage(p, ok))
            => /\ procs'[p].pc \in {"dp_images", "dp_delete"}
               /\ procs'[p].pc = "dp_delete" <=> procs'[p].todo = <<>>
               /\ procs'[p].todo = Tail(procs[p].todo)
               /\ procs'[p].attempted = Append(procs[p].attempted, Head(procs[p].todo))
               /\ out' = out
               /\ posts' = posts
       /\ DeletePostRemove(p)
            => /\ procs[p].attempted = procs[p].all
               /\ procs[p].id \notin DOMAIN posts'
               /\ out'.op = "deletePost" /\ out'.code = 200
               /\ procs'[p] = Idle]_vars

\* the post is removed and the request answered 200 after all three image
\* deletions failed
C19_Witness ==
  /\ posts = <<>>
  /\ out = Deleted(<<"f", "g", "h">>)

C19_WitnessSome == posts = <<>> /\ out = Deleted(<<"g">>)

\* the approved comments of a post that have no parent
TopLevelApproved(postId) ==
  {c \in DOMAIN comments :
     comments[c].post = postId /\ comments[c].status = "approved" /\ comments[c].parent = 0}

\* C20: a listing of a post's comments with the default options (no
\* includeReplies, first page of the default size) finds exactly the approved
\* comments of that post whose parent is null (as many as a page holds), each
\* once, later-created before earlier-created, or the other way round when the
\* request asks for oldest; and the response carries them in that order, each
\* with the replies of its reply list that are stored, in the list's order.
C20_ListTopLevel ==
  [][\A p \in Procs :
       /\ (/\ GetCommentsByPostFind(p)
           /\ procs[p].includeReplies = Undefined
           /\ procs[p].page = 1 /\ procs[p].limit = DefaultCommentLimit
           /\ Cardinality(TopLevelApproved(procs[p].post)) <= DefaultCommentLimit)
            => LET f == procs'[p].found
               IN /\ {f[i].id : i \in 1..Len(f)} = TopLevelApproved(procs[p].post)
                  /\ \A i, j \in 1..Len(f) :
                       i < j => IF procs[p].sort = "oldest"
                                THEN f[i].id < f[j].id ELSE f[i].id > f[j].id
                  /\ \A i \in 1..Len(f) : f[i].replies = comments[f[i].id].replies
       /\ GetCommentsByPostPopulate(p)
            => LET f == procs[p].found
                   r == out'.comments
               IN /\ out'.op = "getCommentsByPost" /\ out'.code = 200
                  /\ Len(r) = Len(f)
                  /\ \A i \in 1..Len(f) :
                       /\ r[i].id = f[i].id
                       /\ \A k \in 1..Len(r[i].replies) : r[i].replies[k] \in DOMAIN comments
                       /\ \A k \in 1..Len(f[i].replies) :
                            f[i].replies[k] \in DOMAIN comments
                              => \E m \in 1..Len(r[i].replies) : r[i].replies[m] = f[i].replies[k]
                       /\ Len(r[i].replies) <= Len(f[i].replies)]_vars

\* the default listing of post 1 came back newest first: comment 3, then the
\* seeded comment with its reply; the reply itself is not listed
C20_Witness ==
  /\ out.op = "getCommentsByPost" /\ out.code = 200
  /\ DOMAIN comments = {1, 2, 3}
  /\ out.comments = <<[id |-> 3, replies |-> <<>>], [id |-> 1, replies |-> <<2>>]>>
  /\ \A c \in {1, 2, 3} : comments[c].post = 1 /\ comments[c].status = "approved"

\* oldest first, with a pending comment left out
C20_WitnessOldest ==
  /\ out.op = "getCommentsByPost" /\ out.code = 200
  /\ DOMAIN comments = {1, 2, 3}
  /\ out.comments = <<[id |-> 1, replies |-> <<>>], [id |-> 3, replies |-> <<>>]>>
  /\ comments[2].post = 1 /\ comments[2].parent = 0 /\ comments[2].status = "pending"

C22_CreatedDraft ==
  [][\A p \in Procs :
       (CreatePostInsert(p) /\ out' = Resp("createPost", 201))
         => /\ posts'[procs[p].id].status = "draft"
            /\ posts'[procs[p].id].publishedAt = 0]_vars

\* C22, amended: every post whose creation request carries no status, or the
\* status draft, is in status draft, with no publishedAt, when its creation
\* has stored it.
C22_CreatedDraftUnlessAsked ==
  [][\A p \in Procs :
       (/\ CreatePostInsert(p) /\ out' = Resp("createPost", 201)
        /\ procs[p].asked \in {Undefined, "draft"})
         => /\ posts'[procs[p].id].status = "draft"
            /\ posts'[procs[p].id].publishedAt = 0]_vars

\* a post whose request asked for no status, or for draft, is stored as a
\* draft, beside a post that was created published
C22_Witness ==
  /\ DOMAIN posts = {1, 2}
  /\ posts[1].status = "published" /\ posts[1].publishedAt # 0
  /\ posts[2].status = "draft" /\ posts[2].publishedAt = 0
  /\ out = Resp("createPost", 201)
  /\ \A p \in Procs : procs[p].pc = "idle"

\* comment c is in the reply list of comment p, once
RepliesOnce(p, c) ==
  Cardinality({i \in 1..Len(comments[p].replies) : comments[p].replies[i] = c}) = 1

InReplies(p, c) == \E i \in 1..Len(comments[p].replies) : comments[p].replies[i] = c

\* C23: in every reachable state in which no request is under way, after
\* interleaved create-reply and delete-comment requests included, comment c
\* is in comment p's reply list, exactly once, if and only if c exists and
\* c's parent reference is p; in particular no reply list names a comment that
\* does not exist and no reply's parent reference names one.
C23_RepliesMatchParents ==
  (\A q \in Procs : procs[q].pc = "idle")
    => /\ \A p \in DOMAIN comments : \A c \in CommentIds :
            /\ InReplies(p, c) <=> (c \in DOMAIN comments /\ comments[c].parent = p)
            /\ InReplies(p, c) => RepliesOnce(p, c)
       /\ \A c \in DOMAIN comments :
            comments[c].parent # 0 => comments[c].parent \in DOMAIN comments

\* C24: like toggles of two different users on one post or comment are
\* serialized, however the two requests interleave: the save of each toggle
\* succeeds, and it leaves the like set that the user's toggle gives when
\* applied to the like set stored just before the save, so that the other
\* user's toggle is kept.  (Under SpecLikeTwo each user has one request at a
\* time, so that a request only ever overlaps a request of the other user.)
C24_TogglesSerialized ==
  [][\A p \in Procs :
       /\ ToggleLikeSave(p)
            => /\ out' = Resp("toggleLike", 200)
               /\ Members(posts'[procs[p].id].likes)
                    = Members(ToggleLikeDoc(posts[procs[p].id].likes, procs[p].u).likes)
       /\ ToggleCommentLikeSave(p)
            => /\ out' = Resp("toggleCommentLike", 200)
               /\ Members(comments'[procs[p].id].likes)
                    = Members(ToggleLikeDoc(comments[procs[p].id].likes, procs[p].u).likes)]_vars

\* C25: a fetch by slug of a published post by a caller who is not its author
\* (anonymous, or an administrator who is not the author, included) raises
\* the post's stored view counter by exactly one and changes nothing else of
\* the post; a fetch by the author, or of a post that is not published,
\* writes nothing: it is answered at once and every post stays as it was.
C25_ViewCounted ==
  [][\A p \in Procs :
       /\ (GetPostBySlugSave(p) /\ out'.code = 200)
            => posts' = [posts EXCEPT ![procs[p].id].views = @ + 1]
       /\ \A viewer \in Users \cup {Anon} :
            LET id == FindBySlug(Slugify(TitleHi))
            IN (/\ GetPostBySlugBegin(p, viewer, Slugify(TitleHi))
                /\ id # 0)
                 => IF posts[id].status = "published" /\ viewer # posts[id].author
                    THEN procs'[p].pc = "gp_save" /\ procs'[p].id = id
                    ELSE procs'[p].pc = "idle" /\ posts' = posts]_vars

\* C26: after every comment update that answers 200 the comment is marked
\* edited and has an edit timestamp, and the update has changed nothing of
\* the stored comments but this comment's content and edit marks.
C26_UpdateMarksEdited ==
  [][\A p \in Procs :
       (UpdateCommentSave(p) /\ out' = Resp("updateComment", 200))
         => LET id == procs[p].id
            IN /\ comments'[id].isEdited /\ comments'[id].editedAt # 0
               /\ comments' = [comments EXCEPT ![id].content = comments'[id].content,
                                               ![id].isEdited = comments'[id].isEdited,
                                               ![id].editedAt = comments'[id].editedAt]]_vars

\* C26, amended: after every comment update that answers 200 and whose content
\* differs from the content the request read, the comment has the new content,
\* is marked edited and has the time of the save as its edit timestamp; and
\* every update that answers 200 has changed nothing of the stored comments
\* but this comment's content and edit marks: status, likes, post, parent
\* reference and reply list are as the step found them.
C26_UpdateMarksEditedWhenChanged ==
  [][\A p \in Procs :
       (UpdateCommentSave(p) /\ out' = Resp("updateComment", 200))
         => LET id == procs[p].id
            IN /\ procs[p].modified
                 => /\ comments'[id].content = procs[p].content
                    /\ comments'[id].isEdited /\ comments'[id].editedAt = now
               /\ comments' = [comments EXCEPT ![id].content = comments'[id].content,
                                               ![id].isEdited = comments'[id].isEdited,
                                               ![id].editedAt = comments'[id].editedAt]]_vars

\* an update has changed the content of the seeded comment, which is pending,
\* liked and replied to as it was before the update was answered
C26_Witness ==
  /\ out = Resp("updateComment", 200)
  /\ comments[1].content = "b" /\ comments[1].isEdited /\ comments[1].editedAt # 0
  /\ comments[1].status = "pending"
  /\ comments[1].likes = <<"u2">>
  /\ comments[1].replies = <<2>>

\* C27: a comment listing (the handler serves every caller alike, moderator
\* or not) carries approved comments only: every comment it finds is
\* approved, and so is every reply in the resolved reply list of a comment
\* it returns.
C27_ListApprovedOnly ==
  [][\A p \in Procs :
       /\ GetCommentsByPostFind(p)
            => \A i \in 1..Len(procs'[p].found) :
                 comments[procs'[p].found[i].id].status = "approved"
       /\ GetCommentsByPostPopulate(p)
            => \A i \in 1..Len(out'.comments) :
                 \A k \in 1..Len(out'.comments[i].replies) :
                   comments[out'.comments[i].replies[k]].status = "approved"]_vars

\* C28: a fetch by slug that finds a post that is not published (a draft or
\* an archived post) answers its author and administrators with the post, and
\* answers every other caller, anonymous callers included, with 403 and no
\* post data, in one step that writes no post (no view is counted).
C28_UnpublishedForAuthorOrAdmin ==
  [][\A p \in Procs, viewer \in Users \cup {Anon} :
       LET id == FindBySlug(Slugify(TitleHi))
       IN (/\ GetPostBySlugBegin(p, viewer, Slugify(TitleHi))
           /\ id # 0
           /\ posts[id].status # "published")
            => /\ posts' = posts
               /\ procs'[p].pc = "idle"
               /\ IF viewer # Anon /\ (viewer = posts[id].author \/ Role(viewer) = "admin")
                  THEN /\ out'.code = 200 /\ out'.to = viewer
                       /\ out'.post.id = id
                  ELSE out' = Resp("getPostBySlug", 403)]_vars

\* a fetch of the archived post by a caller who is neither its author nor an
\* administrator was refused, with no view counted
C28_Witness ==
  /\ out = Resp("getPostBySlug", 403)
  /\ posts[1].status = "archived"
  /\ posts[1].views = 0
  /\ \A p \in Procs : procs[p].pc = "idle"

\* the administrator was served the draft
C28_WitnessAdmin ==
  /\ out.op = "getPostBySlug" /\ out.code = 200
  /\ out.to = "adm"
  /\ posts[1].status = "draft" /\ posts[1].author # "adm"

\* C29: whenever the page holds post data that its query has loaded or
\* reloaded for its user, with no refetch due, the page's liked flag is true
\* if and only if that user is in the like set of the data; so that the flag
\* is true once the refetch after a successful like has arrived, and a user
\* who liked the post earlier finds it liked when the page has loaded.
C29_LikedFlagMatches ==
  (blogPage.query = "fresh" /\ blogPage.post # NoData)
    => (blogPage.liked
          <=> \E i \in 1..Len(blogPage.post.likes) :
                blogPage.post.likes[i].user = blogPage.user)

\* C30: the slug loop of the save hook ends: a request that is in the loop
\* leaves it, whatever the title and whatever posts are stored, created or
\* deleted meanwhile, after fewer uniqueness checks than post ids were ever
\* taken plus two; and the slug the loop ends with is held by no other post
\* stored at the moment of its last uniqueness check.
C30_SlugLoopEnds ==
  /\ [][\A p \in Procs :
          (procs[p].pc # "cp_insert" /\ procs'[p].pc = "cp_insert")
            => \A q \in DOMAIN posts :
                 q # procs'[p].id => posts[q].slug # procs'[p].slug]_vars
  /\ [](\A p \in Procs : procs[p].pc = "cp_slug" => procs[p].counter <= nextPost)
  /\ \A p \in Procs : (procs[p].pc = "cp_slug") ~> (procs[p].pc # "cp_slug")

\* the loop of a creation titled 'Hi!' has ended with 'hi-1', after a check
\* that found 'hi' held by the stored post and a check that found 'hi-1' free
C30_Witness ==
  /\ \E q \in DOMAIN posts : posts[q].slug = <<"h", "i">>
  /\ \E p \in Procs :
       /\ procs[p].pc = "cp_insert"
       /\ procs[p].slug = <<"h", "i", "-", "1">>
       /\ procs[p].counter = 2

====
